---- MODULE Spec2Model ----
(***************************************************************************)
(* Model of gulpfile.js: the registered task graph, the process-supervision *)
(* glue (spawned, process.on('exit'), onError, spawnTask), the stream tasks *)
(* built by eslintTask / prettierTask / sasslintTask, the svg-clean promise *)
(* and the watch bindings.  The task runner that orders and starts the      *)
(* registered tasks is the build tool's; it is modelled as the sequential   *)
(* depth-first runner the specification describes.                          *)
(***************************************************************************)
EXTENDS Integers, Sequences, FiniteSets, TLC

\* Bounds of the model.
MaxChildren == 2
MaxEvents == 2

Range(s) == {s[i] : i \in DOMAIN s}

-----------------------------------------------------------------------------
(* The task registry: every gulp.task(name, [deps], fn) of the file.        *)

TaskNames ==
  {"prettier", "eslint", "eslint-nofail", "sasslint", "sasslint-nofail",
   "sass", "sasstest", "jstest", "jstest-nofail", "test", "browser-sync",
   "compile", "default", "serve", "dev", "watch", "copy-fonts", "jsmin",
   "svg-clean", "svgmin", "imagemin", "minify"}

\* Faulty variant: eslint registered without its prerequisite list.
DepsNoPrettier ==
  [t \in TaskNames |->
     CASE t = "compile" -> <<"sass", "minify">>
       [] t = "test"    -> <<"sasstest", "jstest">>
       [] t = "default" -> <<"compile", "eslint", "sasslint", "test">>
       [] t = "serve"   -> <<"watch", "browser-sync">>
       [] t = "dev"     -> <<"prettier", "eslint-nofail", "sasslint-nofail",
                             "test", "watch">>
       [] t = "svgmin"  -> <<"svg-clean">>
       [] t = "minify"  -> <<"jsmin", "svgmin", "imagemin", "copy-fonts">>
       [] OTHER         -> <<>>]

\* Faulty variant: prettier made to depend on eslint, which depends on prettier.
DepsCyclic ==
  [t \in TaskNames |->
     CASE t = "prettier" -> <<"eslint">>
       [] t = "eslint"  -> <<"prettier">>
       [] t = "compile" -> <<"sass", "minify">>
       [] t = "test"    -> <<"sasstest", "jstest">>
       [] t = "default" -> <<"compile", "eslint", "sasslint", "test">>
       [] t = "serve"   -> <<"watch", "browser-sync">>
       [] t = "dev"     -> <<"prettier", "eslint-nofail", "sasslint-nofail",
                             "test", "watch">>
       [] t = "svgmin"  -> <<"svg-clean">>
       [] t = "minify"  -> <<"jsmin", "svgmin", "imagemin", "copy-fonts">>
       [] OTHER         -> <<>>]

\* The prerequisite list each gulp.task call declares, in declared order.
Deps ==
  [t \in TaskNames |->
     CASE t = "eslint"  -> <<"prettier">>
       [] t = "compile" -> <<"sass", "minify">>
       [] t = "test"    -> <<"sasstest", "jstest">>
       [] t = "default" -> <<"compile", "eslint", "sasslint", "test">>
       [] t = "serve"   -> <<"watch", "browser-sync">>
       [] t = "dev"     -> <<"prettier", "eslint-nofail", "sasslint-nofail",
                             "test", "watch">>
       [] t = "svgmin"  -> <<"svg-clean">>
       [] t = "minify"  -> <<"jsmin", "svgmin", "imagemin", "copy-fonts">>
       [] OTHER         -> <<>>]

\* How each task's function signals completion.
\*   "none"     no function (a composite of its prerequisites)
\*   "stream"   returns a stream
\*   "spawn"    takes cb and hands it to spawnTask
\*   "promise"  takes cb and calls it from del(...).then
\*   "callback" takes cb and hands it to browserSync.init
\*   "sync"     takes no cb and returns nothing (watch)
TaskKind(t) ==
  CASE t \in {"test", "default", "serve", "dev", "minify"} -> "none"
    [] t \in {"jstest", "jstest-nofail"}                    -> "spawn"
    [] t = "svg-clean"                                      -> "promise"
    [] t = "browser-sync"                                   -> "callback"
    [] t = "watch"                                          -> "sync"
    [] OTHER                                                -> "stream"

-----------------------------------------------------------------------------
(* Dependency resolution: depth-first, prerequisites before the task, each  *)
(* name once, in-progress names tracked to detect a cycle.                  *)

ResolveOk(order) == [err |-> "none", order |-> order]
ResolveErr(e) == [err |-> e, order |-> <<>>]

RECURSIVE Visit(_, _, _), VisitAll(_, _, _)
Visit(t, st, path) ==
  IF st.err # "none" THEN st
  ELSE IF t \notin TaskNames THEN ResolveErr("UnknownTaskError")
  ELSE IF t \in path THEN ResolveErr("CyclicDependencyError")
  ELSE IF t \in Range(st.order) THEN st
  ELSE LET after == VisitAll(Deps[t], st, path \cup {t})
       IN  IF after.err # "none" THEN after
           ELSE ResolveOk(Append(after.order, t))

VisitAll(ds, st, path) ==
  IF ds = <<>> THEN st
  ELSE VisitAll(Tail(ds), Visit(Head(ds), st, path), path)

Resolve(t) == Visit(t, ResolveOk(<<>>), {})

-----------------------------------------------------------------------------
(* Values passed to callbacks and to onError.                               *)

Children == 1..MaxChildren

NoError == [kind |-> "none", code |-> 0]
\* The err object a child handle hands to its 'error' listeners.
SpawnError == [kind |-> "spawn", code |-> 0]
\* new Error(`Task failed with code ${code}`)
ExitError(code) == [kind |-> "exit", code |-> code]
\* A bare exit code, as passed to onError(code).
RawCode(code) == [kind |-> "code", code |-> code]
\* The error a failing lint/compile/test stream emits.
StreamError == [kind |-> "stream", code |-> 0]

\* The events a child handle can emit.  'exit' carries (code, signal); a
\* child ended by a signal has code null, written here as bySignal.
ExitCodes == {0, 1, 2}
ExitEvent(code) == [ev |-> "exit", code |-> code, bySignal |-> FALSE]
SignalExitEvent == [ev |-> "exit", code |-> 0, bySignal |-> TRUE]
ErrorEvent == [ev |-> "error", code |-> 0, bySignal |-> FALSE]

\* JavaScript truthiness of the `code` argument of the 'exit' listener.
Truthy(e) == ~e.bySignal /\ e.code # 0

\* onError(err): the line handed to gutil.log, one beep, and 'end' emitted
\* on `this` when the function was called with a stream as `this`.
OnError(err, thisIsStream) ==
  [line |-> IF err.kind = "code"
              THEN [text |-> "Task failed with code: ", code |-> err.code]
              ELSE [text |-> "message", code |-> err.code],
   beeps |-> 1,
   emitEnd |-> thisIsStream]

\* Faulty variant: the 'error' listener ignoring failOnError.
BuggyOnSpawnError(failOnError) ==
  [cb |-> SpawnError, sunk |-> <<>>, beeps |-> 1]

\* spawnTask's 'error' listener: what it passes to cb, what it passes to
\* onError, and how often it beeps (its own beep plus onError's).
OnSpawnError(failOnError) ==
  IF failOnError
    THEN [cb |-> SpawnError, sunk |-> <<>>, beeps |-> 1]
    ELSE [cb |-> NoError,
          sunk |-> <<OnError(SpawnError, FALSE).line>>,
          beeps |-> OnError(SpawnError, FALSE).beeps]

\* Faulty variant: the 'exit' listener reporting every exit as success.
BuggyOnExit(failOnError, e) ==
  [cb |-> NoError, sunk |-> <<>>, beeps |-> 0]

\* spawnTask's 'exit' listener.
OnExit(failOnError, e) ==
  IF Truthy(e)
    THEN IF failOnError
           THEN [cb |-> ExitError(e.code), sunk |-> <<>>, beeps |-> 1]
           ELSE [cb |-> NoError,
                 sunk |-> <<OnError(RawCode(e.code), FALSE).line>>,
                 beeps |-> OnError(RawCode(e.code), FALSE).beeps]
    ELSE [cb |-> NoError, sunk |-> <<>>, beeps |-> 0]

\* Faulty variant: jstest passing failOnError = false.
BuggySpawnFailOnError(t) == FALSE

\* The failOnError argument each spawning task gives spawnTask (jstest
\* leaves it to the default, true; jstest-nofail passes false).
SpawnFailOnError(t) == t # "jstest-nofail"

\* Faulty variant: the handle is not recorded.
BuggyPushSpawned(s, c) == s

\* spawned.push(handle)
PushSpawned(s, c) == Append(s, c)

\* Faulty variant: the loop stops after the first handle.
BuggyKillTargets(s) == IF s = <<>> THEN {} ELSE {Head(s)}

\* The handles process.on('exit') calls kill() on.
KillTargets(s) == Range(s)

\* Faulty variant: the test of failOnError inverted.
BuggyLintHandler(failOnError) == failOnError

\* eslintTask / sasslintTask: onError is attached to the stream exactly
\* when failOnError is falsy.
LintHandler(failOnError) == ~failOnError

\* Whether the stream a task returns has onError attached where its tool's
\* error is emitted: the lint tasks on their last stage when failOnError is
\* falsy, prettier on its last stage, sass on the compiler stage; the other
\* stream tasks attach nothing.
StreamHasHandler(t) ==
  CASE t = "eslint"          -> LintHandler(TRUE)
    [] t = "eslint-nofail"   -> LintHandler(FALSE)
    [] t = "sasslint"        -> LintHandler(TRUE)
    [] t = "sasslint-nofail" -> LintHandler(FALSE)
    [] t = "prettier"        -> TRUE
    [] t = "sass"            -> TRUE
    [] OTHER                 -> FALSE

-----------------------------------------------------------------------------
(* The watch bindings set up by the watch task.                             *)

SassFiles == {"scss/a.scss", "scss/b.scss"}
JsTestFiles == {"test/a.js"}
ConfigFiles == {".sass-lint.yml", ".eslintrc.yml"}
EventTypes == {"added", "changed", "deleted"}

\* The tasks the task-list bindings start for an event on a file (any
\* event type): gulp.watch(globs, [tasks]).
BoundTasks(file) ==
  (IF file \in SassFiles \cup JsTestFiles THEN {"compile"} ELSE {})
  \cup (IF file \in JsTestFiles THEN {"jstest-nofail"} ELSE {})
  \cup (IF file \in SassFiles THEN {"sasstest"} ELSE {})
  \cup (IF file = ".sass-lint.yml" THEN {"sasslint-nofail"} ELSE {})
  \cup (IF file = ".eslintrc.yml" THEN {"eslint-nofail"} ELSE {})

\* Faulty variant: the filter letting only 'changed' through.
BuggyLintOnEvent(ev) ==
  IF ev.type = "changed"
    THEN <<[src |-> ev.path, failOnError |-> FALSE, log |-> TRUE]>>
    ELSE <<>>

\* The callback bound to paths.SASS: the sasslintTask calls it makes.
LintOnEvent(ev) ==
  IF ev.type = "added" \/ ev.type = "changed"
    THEN <<[src |-> ev.path, failOnError |-> FALSE, log |-> TRUE]>>
    ELSE <<>>

-----------------------------------------------------------------------------
VARIABLES
  root,         \* the task the run was started for ("" before the run)
  order,        \* the run's resolved sequence
  status,       \* per task: "pending", "running", "done", "failed"
  toolFailed,   \* per task: its tool has failed in this run
  taskSunk,     \* tasks whose stream error reached onError
  runState,     \* "idle", "running", "success", "failure"
  delState,     \* del(...) of svg-clean: "idle", "pending", "fulfilled", "rejected"
  watching,     \* the watch task has installed its bindings
  cstate,       \* per child handle: "unspawned", "live", "terminated"
  cfail,        \* per child handle: the failOnError of its spawnTask call
  ctask,        \* per child handle: the task whose cb it was given
  cowner,       \* per child handle: "run" (a step of the run) or "watch"
  events,       \* per child handle: the events it has emitted
  cbCalls,      \* per child handle: the arguments cb was invoked with
  sunk,         \* per child handle: the lines onError logged for it
  spawned,      \* the process-wide list of handles
  killSent,     \* handles kill() was called on
  exited,       \* the parent's 'exit' event has fired
  nEvents,      \* filesystem events delivered to the watch bindings
  sassEvents,   \* those of them delivered to the binding on paths.SASS
  lintRuns,     \* sasslintTask calls made by the filtered binding
  watchStarted, \* tasks started by the task-list bindings
  beeps         \* gutil.beep() calls

runVars == <<root, order, status, toolFailed, taskSunk, runState>>
childVars == <<cstate, cfail, ctask, cowner, events, cbCalls, sunk, spawned>>
watchVars == <<nEvents, sassEvents, lintRuns, watchStarted>>
vars == <<root, order, status, toolFailed, taskSunk, runState, delState,
          watching, cstate, cfail, ctask, cowner, events, cbCalls, sunk,
          spawned, killSent, exited, nEvents, sassEvents, lintRuns,
          watchStarted, beeps>>

Init ==
  /\ root = ""
  /\ order = <<>>
  /\ status = [t \in TaskNames |-> "pending"]
  /\ toolFailed = [t \in TaskNames |-> FALSE]
  /\ taskSunk = {}
  /\ runState = "idle"
  /\ delState = "idle"
  /\ watching = FALSE
  /\ cstate = [c \in Children |-> "unspawned"]
  /\ cfail = [c \in Children |-> TRUE]
  /\ ctask = [c \in Children |-> ""]
  /\ cowner = [c \in Children |-> ""]
  /\ events = [c \in Children |-> <<>>]
  /\ cbCalls = [c \in Children |-> <<>>]
  /\ sunk = [c \in Children |-> <<>>]
  /\ spawned = <<>>
  /\ killSent = {}
  /\ exited = FALSE
  /\ nEvents = 0
  /\ sassEvents = <<>>
  /\ lintRuns = <<>>
  /\ watchStarted = {}
  /\ beeps = 0

-----------------------------------------------------------------------------
(* The task runner: one run, its steps started one at a time in resolved    *)
(* order, each after the step before it has signalled completion.           *)

\* A task is invoked: its sequence is resolved; a resolution error fails
\* the run before any step starts.
Invoke(t) ==
  /\ ~exited
  /\ runState = "idle"
  /\ root' = t
  /\ LET r == Resolve(t)
     IN  /\ order' = r.order
         /\ runState' = IF r.err = "none" THEN "running" ELSE "failure"
  /\ UNCHANGED <<status, toolFailed, taskSunk, delState, watching, childVars,
                 killSent, exited, watchVars, beeps>>

\* t is the next step of the run and every step before it is done.
CanStart(t) ==
  /\ ~exited
  /\ runState = "running"
  /\ \E i \in DOMAIN order :
       /\ order[i] = t
       /\ status[t] = "pending"
       /\ \A j \in 1..(i - 1) : status[order[j]] = "done"

\* Step t signals completion, with or without an error.  A signal from a
\* step that is not running (a second call of its cb) changes nothing.
Signal(t, isErr) ==
  IF runState = "running" /\ status[t] = "running"
    THEN /\ status' = [status EXCEPT ![t] = IF isErr THEN "failed" ELSE "done"]
         /\ runState' = IF isErr THEN "failure"
                        ELSE IF t = order[Len(order)] THEN "success"
                        ELSE "running"
    ELSE UNCHANGED <<status, runState>>

\* The handle the next spawn call creates.
NextChild == CHOOSE c \in Children :
               /\ cstate[c] = "unspawned"
               /\ \A d \in 1..(c - 1) : cstate[d] # "unspawned"

\* spawnTask(command, args, cb, failOnError): the handle is created, its
\* listeners installed, and the handle pushed on spawned.
SpawnTask(t, failOnError, owner) ==
  /\ \E c \in Children : cstate[c] = "unspawned"
  /\ LET c == NextChild
     IN  /\ cstate' = [cstate EXCEPT ![c] = "live"]
         /\ cfail' = [cfail EXCEPT ![c] = failOnError]
         /\ ctask' = [ctask EXCEPT ![c] = t]
         /\ cowner' = [cowner EXCEPT ![c] = owner]
         /\ spawned' = PushSpawned(spawned, c)
  /\ UNCHANGED <<events, cbCalls, sunk>>

\* A task with no function completes as soon as its prerequisites have.
StartComposite(t) ==
  /\ CanStart(t)
  /\ TaskKind(t) = "none"
  /\ status' = [status EXCEPT ![t] = "done"]
  /\ runState' = IF t = order[Len(order)] THEN "success" ELSE "running"
  /\ UNCHANGED <<root, order, toolFailed, taskSunk, delState, watching,
                 childVars, killSent, exited, watchVars, beeps>>

\* A task that returns a stream starts; the stream ends later.
StartStream(t) ==
  /\ CanStart(t)
  /\ TaskKind(t) = "stream"
  /\ status' = [status EXCEPT ![t] = "running"]
  /\ UNCHANGED <<root, order, toolFailed, taskSunk, runState, delState,
                 watching, childVars, killSent, exited, watchVars, beeps>>

\* jstest / jstest-nofail: spawnTask('./node_modules/.bin/nyc', args, cb[, false]).
StartSpawn(t) ==
  /\ CanStart(t)
  /\ TaskKind(t) = "spawn"
  /\ status' = [status EXCEPT ![t] = "running"]
  /\ SpawnTask(t, SpawnFailOnError(t), "run")
  /\ UNCHANGED <<root, order, toolFailed, taskSunk, runState, delState,
                 watching, killSent, exited, watchVars, beeps>>

\* svg-clean: del(...) is called; cb waits for the promise.
StartPromise(t) ==
  /\ CanStart(t)
  /\ TaskKind(t) = "promise"
  /\ status' = [status EXCEPT ![t] = "running"]
  /\ delState' = "pending"
  /\ UNCHANGED <<root, order, toolFailed, taskSunk, runState, watching,
                 childVars, killSent, exited, watchVars, beeps>>

\* browser-sync: browserSync.init(config, cb).
StartCallback(t) ==
  /\ CanStart(t)
  /\ TaskKind(t) = "callback"
  /\ status' = [status EXCEPT ![t] = "running"]
  /\ UNCHANGED <<root, order, toolFailed, taskSunk, runState, delState,
                 watching, childVars, killSent, exited, watchVars, beeps>>

\* watch: the bindings are installed and the function returns.
StartSync(t) ==
  /\ CanStart(t)
  /\ TaskKind(t) = "sync"
  /\ watching' = TRUE
  /\ status' = [status EXCEPT ![t] = "done"]
  /\ runState' = IF t = order[Len(order)] THEN "success" ELSE "running"
  /\ UNCHANGED <<root, order, toolFailed, taskSunk, delState, childVars,
                 killSent, exited, watchVars, beeps>>

\* The stream a task returned ends: its tool succeeded, or it emitted an
\* error.  With onError attached the error is logged and 'end' is emitted
\* on the stream, which completes the task; without, the error fails it.
StreamEnd(t, fails) ==
  /\ ~exited
  /\ runState = "running"
  /\ TaskKind(t) = "stream"
  /\ status[t] = "running"
  /\ toolFailed' = [toolFailed EXCEPT ![t] = fails]
  /\ IF fails /\ StreamHasHandler(t)
       THEN LET r == OnError(StreamError, TRUE)
            IN  /\ taskSunk' = taskSunk \cup {t}
                /\ beeps' = beeps + r.beeps
                /\ IF r.emitEnd THEN Signal(t, FALSE)
                   ELSE UNCHANGED <<status, runState>>
       ELSE /\ Signal(t, fails)
            /\ UNCHANGED <<taskSunk, beeps>>
  /\ UNCHANGED <<root, order, delState, watching, childVars, killSent,
                 exited, watchVars>>

\* What a listener of handle c did is recorded, and the cb it called is
\* delivered to the run when the handle belongs to one of its steps.
Deliver(c, e, r, failed) ==
  /\ events' = [events EXCEPT ![c] = Append(@, e)]
  /\ cbCalls' = [cbCalls EXCEPT ![c] = Append(@, r.cb)]
  /\ sunk' = [sunk EXCEPT ![c] = @ \o r.sunk]
  /\ beeps' = beeps + r.beeps
  /\ IF cowner[c] = "run"
       THEN /\ toolFailed' = [toolFailed EXCEPT ![ctask[c]] = @ \/ failed]
            /\ Signal(ctask[c], r.cb.kind # "none")
       ELSE UNCHANGED <<toolFailed, status, runState>>

\* Handle c emits 'error': the spawn failed (the child never ran), or a
\* later operation on the handle failed and the child is still running.
ChildError(c, fatal) ==
  /\ ~exited
  /\ cstate[c] = "live"
  /\ events[c] = <<>>
  /\ cstate' = [cstate EXCEPT ![c] = IF fatal THEN "terminated" ELSE "live"]
  /\ Deliver(c, ErrorEvent, OnSpawnError(cfail[c]), TRUE)
  /\ UNCHANGED <<root, order, taskSunk, delState, watching, cfail, ctask,
                 cowner, spawned, killSent, exited, watchVars>>

\* Handle c emits 'exit': the child has ended.
ChildExit(c, e) ==
  /\ ~exited
  /\ cstate[c] = "live"
  /\ cstate' = [cstate EXCEPT ![c] = "terminated"]
  /\ Deliver(c, e, OnExit(cfail[c], e), Truthy(e))
  /\ UNCHANGED <<root, order, taskSunk, delState, watching, cfail, ctask,
                 cowner, spawned, killSent, exited, watchVars>>

\* The promise of del(...) settles.  Only fulfilment has a reaction:
\* .then(() => { cb(); }); there is no rejection handler.
DelSettle(ok) ==
  /\ ~exited
  /\ delState = "pending"
  /\ delState' = IF ok THEN "fulfilled" ELSE "rejected"
  /\ IF ok THEN Signal("svg-clean", FALSE)
     ELSE UNCHANGED <<status, runState>>
  /\ UNCHANGED <<root, order, toolFailed, taskSunk, watching, childVars,
                 killSent, exited, watchVars, beeps>>

\* browserSync.init calls the cb it was given.
BrowserSyncInit(err) ==
  /\ ~exited
  /\ runState = "running"
  /\ status["browser-sync"] = "running"
  /\ toolFailed' = [toolFailed EXCEPT !["browser-sync"] = err]
  /\ Signal("browser-sync", err)
  /\ UNCHANGED <<root, order, taskSunk, delState, watching, childVars,
                 killSent, exited, watchVars, beeps>>

\* A filesystem event on a Sass source reaches the watch bindings: the
\* filtered callback on paths.SASS runs, and the task-list bindings on the
\* file start their tasks.
SassFsEvent(type, file) ==
  /\ ~exited
  /\ watching
  /\ file \in SassFiles
  /\ nEvents < MaxEvents
  /\ nEvents' = nEvents + 1
  /\ LET ev == [type |-> type, path |-> file]
     IN  /\ sassEvents' = Append(sassEvents, ev)
         /\ lintRuns' = lintRuns \o LintOnEvent(ev)
  /\ watchStarted' = watchStarted \cup BoundTasks(file)
  /\ UNCHANGED <<runVars, delState, watching, childVars, killSent, exited,
                 beeps>>

\* A filesystem event on a JS test file reaches the watch bindings: the
\* task-list bindings on the file start their tasks, and jstest-nofail
\* spawns its test process.
JsTestFsEvent(type, file) ==
  /\ ~exited
  /\ watching
  /\ file \in JsTestFiles
  /\ nEvents < MaxEvents
  /\ nEvents' = nEvents + 1
  /\ watchStarted' = watchStarted \cup BoundTasks(file)
  /\ SpawnTask("jstest-nofail", SpawnFailOnError("jstest-nofail"), "watch")
  /\ UNCHANGED <<runVars, delState, watching, killSent, exited, sassEvents,
                 lintRuns, beeps>>

\* process.on('exit'): kill() is called on the handles of spawned.
ParentExit ==
  /\ ~exited
  /\ exited' = TRUE
  /\ killSent' = KillTargets(spawned)
  /\ UNCHANGED <<runVars, delState, watching, childVars, watchVars, beeps>>

ExitEvents == {ExitEvent(k) : k \in ExitCodes} \cup {SignalExitEvent}

Next ==
  \/ \E t \in TaskNames : Invoke(t)
  \/ \E t \in TaskNames : StartComposite(t)
  \/ \E t \in TaskNames : StartStream(t)
  \/ \E t \in TaskNames : StartSpawn(t)
  \/ \E t \in TaskNames : StartPromise(t)
  \/ \E t \in TaskNames : StartCallback(t)
  \/ \E t \in TaskNames : StartSync(t)
  \/ \E t \in TaskNames, fails \in BOOLEAN : StreamEnd(t, fails)
  \/ \E c \in Children, fatal \in BOOLEAN : ChildError(c, fatal)
  \/ \E c \in Children, e \in ExitEvents : ChildExit(c, e)
  \/ \E ok \in BOOLEAN : DelSettle(ok)
  \/ \E err \in BOOLEAN : BrowserSyncInit(err)
  \/ \E type \in EventTypes, file \in SassFiles : SassFsEvent(type, file)
  \/ \E type \in EventTypes, file \in JsTestFiles : JsTestFsEvent(type, file)
  \/ ParentExit

Spec == Init /\ [][Next]_vars

-----------------------------------------------------------------------------
(* Properties.                                                              *)

Failing(e) == e.ev = "error" \/ (e.ev = "exit" /\ ~e.bySignal /\ e.code # 0)
CleanExit(e) == e.ev = "exit" /\ ~e.bySignal /\ e.code = 0
RunEnded == runState \in {"success", "failure"}
PositionOf(t) == CHOOSE i \in DOMAIN order : order[i] = t

\* C1: every event of a child handle is answered by one call of cb whose
\* argument follows the policy: exit code 0 gives no error; a failure
\* (non-zero exit code, 'error') gives, under failOnError, an error that
\* carries the exit code or is the spawn error, and otherwise no error with
\* the failure passed to onError (one logged line per failure, carrying the
\* exit code); nothing is passed to onError under failOnError.
C1_SpawnTaskPolicy ==
  \A c \in Children :
    /\ Len(cbCalls[c]) = Len(events[c])
    /\ \A i \in DOMAIN events[c] :
         LET e == events[c][i]
             cb == cbCalls[c][i]
         IN  /\ CleanExit(e) => cb.kind = "none"
             /\ (Failing(e) /\ cfail[c] /\ e.ev = "exit")
                  => (cb.kind = "exit" /\ cb.code = e.code)
             /\ (Failing(e) /\ cfail[c] /\ e.ev = "error")
                  => cb.kind = "spawn"
             /\ (Failing(e) /\ ~cfail[c])
                  => /\ cb.kind = "none"
                     /\ e.ev = "exit"
                          => \E k \in DOMAIN sunk[c] : sunk[c][k].code = e.code
    /\ Len(sunk[c]) = IF cfail[c] THEN 0
                      ELSE Cardinality({i \in DOMAIN events[c] :
                                          Failing(events[c][i])})

\* A fail-fast child has exited with code 0 and its cb got no error, and a
\* best-effort child has exited with code 2, which went to onError.
C1_Witness ==
  \E c, d \in Children :
    /\ cfail[c] /\ events[c] = <<ExitEvent(0)>> /\ cbCalls[c] = <<NoError>>
    /\ ~cfail[d] /\ events[d] = <<ExitEvent(2)>> /\ cbCalls[d] = <<NoError>>
    /\ Len(sunk[d]) = 1

\* C2 (as stated): a handle is in spawned exactly while it is live.
C2_SpawnedExactlyLive ==
  \A c \in Children : (c \in Range(spawned)) <=> (cstate[c] = "live")

\* C2 (amended): a handle is added to spawned when spawnTask spawns it and
\* is never removed: spawned holds every handle ever spawned, once each, so
\* every live handle is in it, and so are the terminated ones.
C2_SpawnedHoldsEverySpawn ==
  /\ Range(spawned) = {c \in Children : cstate[c] # "unspawned"}
  /\ Len(spawned) = Cardinality(Range(spawned))

\* spawned holds a terminated handle beside a live one.
C2_Witness ==
  \E c, d \in Range(spawned) : cstate[c] = "terminated" /\ cstate[d] = "live"

\* C3: once the parent's 'exit' event has fired, kill() has been called on
\* every child that was spawned through spawnTask and is still live.
C3_NoOrphan ==
  exited => \A c \in Children : cstate[c] = "live" => c \in killSent

\* The parent exits with at least two children still live, all signalled.
C3_Witness ==
  /\ exited
  /\ Cardinality({c \in Children : cstate[c] = "live"}) >= 2
  /\ \A c \in Children : cstate[c] = "live" => c \in killSent

FailFastSteps == {"jstest", "eslint", "sasslint"}
BestEffortSteps == {"jstest-nofail", "eslint-nofail", "sasslint-nofail"}

\* C4: when the tool of a fail-fast step of the run's sequence has failed,
\* the run has failed and no step after it in the sequence was started.
C4_FailFastHalts ==
  \A i \in DOMAIN order :
    (order[i] \in FailFastSteps /\ toolFailed[order[i]])
      => /\ runState = "failure"
         /\ \A j \in (i + 1)..Len(order) : status[order[j]] = "pending"

\* In a run of default, eslint has failed with steps left after it.
C4_Witness ==
  /\ root = "default"
  /\ toolFailed["eslint"]
  /\ status["eslint"] = "failed"
  /\ runState = "failure"
  /\ status["sasslint"] = "pending"

\* onError was called for the failure of best-effort step t of the run.
Reported(t) ==
  \/ t \in taskSunk
  \/ \E c \in Children : ctask[c] = t /\ cowner[c] = "run" /\ sunk[c] # <<>>

\* C5 (as stated): when the tool of a best-effort step has failed, the
\* ended run has run every step and reports success.
C5_BestEffortAlwaysSucceeds ==
  \A t \in BestEffortSteps \cap Range(order) :
    (toolFailed[t] /\ RunEnded)
      => /\ Reported(t)
         /\ status[t] = "done"
         /\ \A u \in Range(order) : status[u] = "done"
         /\ runState = "success"

\* C5 (amended): when the tool of a best-effort step has failed, the error
\* was reported through onError and the step signalled completion without
\* error; the run does not fail unless another step of it failed, and an
\* ended run in which no step failed has run every step and reports
\* success.
C5_BestEffortContinues ==
  \A t \in BestEffortSteps \cap Range(order) :
    toolFailed[t]
      => /\ Reported(t)
         /\ status[t] = "done"
         /\ runState = "failure"
              => \E u \in Range(order) \ BestEffortSteps : status[u] = "failed"
         /\ (RunEnded /\ \A u \in Range(order) : status[u] # "failed")
              => /\ \A u \in Range(order) : status[u] = "done"
                 /\ runState = "success"

\* A run of dev has succeeded although eslint-nofail's tool failed.
C5_Witness ==
  /\ root = "dev"
  /\ toolFailed["eslint-nofail"]
  /\ "eslint-nofail" \in taskSunk
  /\ runState = "success"

\* The prerequisites the registrations are said to declare.
ClaimedPrereqs(t) ==
  CASE t = "eslint"  -> {"prettier"}
    [] t = "compile" -> {"sass", "minify"}
    [] t = "svgmin"  -> {"svg-clean"}
    [] t = "minify"  -> {"jsmin", "svgmin", "imagemin", "copy-fonts"}
    [] t = "test"    -> {"sasstest", "jstest"}
    [] t = "default" -> {"compile", "eslint", "sasslint", "test"}
    [] t = "serve"   -> {"watch", "browser-sync"}
    [] t = "dev"     -> {"prettier", "eslint-nofail", "sasslint-nofail",
                         "test", "watch"}
    [] OTHER         -> {}

RECURSIVE ClaimedClosure(_, _)
ClaimedClosure(S, n) ==
  LET more == S \cup UNION {ClaimedPrereqs(u) : u \in S}
  IN  IF n = 0 \/ more = S THEN S ELSE ClaimedClosure(more, n - 1)

\* C6: a task that has started has every transitive prerequisite done.
C6_PrerequisitesFirst ==
  \A t \in TaskNames :
    status[t] # "pending"
      => \A p \in ClaimedClosure(ClaimedPrereqs(t), Cardinality(TaskNames)) :
           status[p] = "done"

\* In a run of default, compile is running after sass and all of minify.
C6_Witness ==
  /\ root = "default"
  /\ status["compile"] = "running"
  /\ status["svg-clean"] = "done"
  /\ status["minify"] = "done"

\* C7 (as stated): a failed deletion in svg-clean is not fatal: svg-clean
\* still signals completion.
C7_CleanupFailureNonFatal ==
  delState = "rejected" => status["svg-clean"] = "done"

RECURSIVE DepsClosure(_, _)
DepsClosure(S, n) ==
  LET more == S \cup UNION {Range(Deps[u]) : u \in S \cap TaskNames}
  IN  IF n = 0 \/ more = S THEN S ELSE DepsClosure(more, n - 1)

Reachable(t) == DepsClosure(Range(Deps[t]), Cardinality(TaskNames))

\* C8: every declared prerequisite is registered, no task reaches itself,
\* and the sequence resolved for the invoked task holds the task and each
\* task reachable from it exactly once, each after its own prerequisites.
C8_ResolveTotalOrder ==
  /\ \A t \in TaskNames : Range(Deps[t]) \subseteq TaskNames
  /\ \A t \in TaskNames : t \notin Reachable(t)
  /\ runState # "idle"
       => /\ Range(order) = Reachable(root) \cup {root}
          /\ Len(order) = Cardinality(Range(order))
          /\ \A i \in DOMAIN order :
               \A p \in Range(Deps[order[i]]) :
                 \E j \in 1..(i - 1) : order[j] = p

\* default has been resolved to its fifteen tasks, prettier (reached only
\* through eslint) and svg-clean (reached through compile, minify, svgmin)
\* among them.
C8_Witness ==
  /\ root = "default"
  /\ runState = "running"
  /\ Cardinality(Range(order)) = 15
  /\ PositionOf("prettier") < PositionOf("eslint")
  /\ PositionOf("svg-clean") < PositionOf("svgmin")

RECURSIVE LintedPaths(_)
LintedPaths(evs) ==
  IF evs = <<>> THEN <<>>
  ELSE (IF Head(evs).type \in {"added", "changed"}
          THEN <<Head(evs).path>> ELSE <<>>)
       \o LintedPaths(Tail(evs))

\* C9: the lint runs of the filtered binding are, in order, one best-effort
\* run on the path of each 'added' or 'changed' event, and nothing else.
C9_FilteredWatch ==
  /\ Len(lintRuns) = Len(LintedPaths(sassEvents))
  /\ \A i \in DOMAIN lintRuns :
       /\ lintRuns[i].src = LintedPaths(sassEvents)[i]
       /\ ~lintRuns[i].failOnError

\* A 'deleted' event and an 'added' event have been delivered, and the
\* only lint run is the one on the added file.
C9_Witness ==
  /\ Len(sassEvents) = 2
  /\ sassEvents[1].type = "deleted"
  /\ sassEvents[2].type = "added"
  /\ sassEvents[1].path # sassEvents[2].path
  /\ Len(lintRuns) = 1
  /\ lintRuns[1].src = sassEvents[2].path

\* C10 (as stated): cb is invoked exactly once for a handle that has
\* emitted its events, never twice.
C10_CallbackExactlyOnce ==
  \A c \in Children :
    /\ Len(cbCalls[c]) <= 1
    /\ events[c] # <<>> => Len(cbCalls[c]) = 1

====
